---- MODULE Spec2Model ----
(***************************************************************************)
(* A model of t-rs (src/src/main.rs): a registry directory whose children  *)
(* are symlinks to temp directories (ephemeral entries) or real            *)
(* directories (persistent entries), and the tool's invocations on it.     *)
(*                                                                         *)
(* A path is the sequence of its components below the root "/"; <<>> is    *)
(* the root itself.  A component is a string.                              *)
(***************************************************************************)
EXTENDS Integers, Sequences, FiniteSets, TLC

\* ------------------------------------------------------------- bounds
\* Number of distinct names tempdir::TempDir::new can hand out.
MaxTmp == 2

\* ---------------------------------------------------------- constants
TEMPDIR_PREFIX == "T-RS-TEMPDIR"
\* home.join(TEMPDIRS): the registry
TEMPDIRS == <<"home", "tempdirs">>
\* std::env::temp_dir()
TMP == <<"tmp">>
\* a directory of the user's that is neither in the registry nor in TMP
ELSEWHERE == <<"home", "work">>

UNNAMED == "unnamed_"
\* format!("unnamed_{}", k); a usize k is kept as its decimal digits, which is
\* what Display prints
UnnamedName(k) == UNNAMED \o k

\* the names of the model: one the user types on the command line, and the
\* first one new_name allocates
Names == {"a", UnnamedName("1")}
\* the registry children new_name is studied on: a gap, a leading zero, a
\* suffix that is no number, usize::MAX and the number after it
AllocNames ==
    {"unnamed_1", "unnamed_02", "unnamed_3", "unnamed_x",
     "unnamed_18446744073709551615", "unnamed_18446744073709551616"}
TmpIds == 1..MaxTmp
\* what a scratch directory can contain: one subdirectory
Items == {"sub"}

\* the directory name TempDir::new(TEMPDIR_PREFIX) creates under TMP
TmpName(t) == TEMPDIR_PREFIX \o "." \o ToString(t)
TmpPathTable == [t \in TmpIds |-> TMP \o <<TmpName(t)>>]
TmpPath(t) == TmpPathTable[t]
RegPath(n) == TEMPDIRS \o <<n>>

\* ------------------------------------------------------------ options
NoneP == [some |-> FALSE, v |-> <<>>]
SomeP(p) == [some |-> TRUE, v |-> p]
NoneN == [some |-> FALSE, v |-> ""]
SomeN(n) == [some |-> TRUE, v |-> n]
OptNames == {NoneN} \cup {SomeN(n) : n \in Names}

\* ------------------------------------------------------- string helpers
\* str::starts_with
starts_with(s, p) == Len(s) >= Len(p) /\ SubSeq(s, 1, Len(p)) = p
\* str::strip_prefix, the rest after the prefix (only used when it is there)
strip_prefix(s, p) == SubSeq(s, Len(p) + 1, Len(s))

\* ---------------------------------------------------------- filesystem
\* A registry child: none, a symlink to TmpPath(target), or a directory.
NoEntry == [kind |-> "none", target |-> 0, items |-> {}]
LinkTo(t) == [kind |-> "link", target |-> t, items |-> {}]
DirOf(items) == [kind |-> "dir", target |-> 0, items |-> items]
\* A directory under TMP: absent, or present with its items.
NoDir == [ex |-> FALSE, items |-> {}]
TmpDir(items) == [ex |-> TRUE, items |-> items]

VARIABLES
    reg,      \* registry child name -> entry
    tmp,      \* temp dir id -> directory
    sess,     \* the running `t shell` session: res, the path its shell started in
    deleted   \* history: the temp dirs left behind by a delete of their symlink

vars == <<reg, tmp, sess, deleted>>

\* Path::parent of a non-root path
Parent(p) == SubSeq(p, 1, Len(p) - 1)
\* Path::starts_with: whole components
path_starts_with(p, q) == Len(p) >= Len(q) /\ SubSeq(p, 1, Len(q)) = q

IsRegChild(p) == Len(p) = Len(TEMPDIRS) + 1 /\ Parent(p) = TEMPDIRS /\ p[Len(p)] \in Names
IsTmpChild(p) == Len(p) = Len(TMP) + 1 /\ Parent(p) = TMP /\ \E t \in TmpIds : p = TmpPath(t)
TmpIdOf(p) == CHOOSE t \in TmpIds : p = TmpPath(t)
NameOf(p) == p[Len(p)]

\* Path::is_symlink (symlink_metadata: does not follow the last component)
is_symlink(fs, p) ==
    /\ Len(p) = Len(TEMPDIRS) + 1 /\ Parent(p) = TEMPDIRS
    /\ NameOf(p) \in DOMAIN fs.reg
    /\ fs.reg[NameOf(p)].kind = "link"

\* std::fs::read_link of a registry symlink
read_link(fs, p) == TmpPath(fs.reg[NameOf(p)].target)

\* The path with a registry symlink among its components followed.
Resolve(fs, p) ==
    IF Len(p) > Len(TEMPDIRS) /\ path_starts_with(p, TEMPDIRS)
       /\ p[Len(TEMPDIRS) + 1] \in DOMAIN fs.reg
       /\ fs.reg[p[Len(TEMPDIRS) + 1]].kind = "link"
    THEN TmpPath(fs.reg[p[Len(TEMPDIRS) + 1]].target)
         \o SubSeq(p, Len(TEMPDIRS) + 2, Len(p))
    ELSE p

\* Whether a symlink-free path names a directory.
RealDir(fs, p) ==
    \/ p \in {<<>>, <<"home">>, TMP, TEMPDIRS, ELSEWHERE}
    \/ \E t \in TmpIds :
          /\ fs.tmp[t].ex
          /\ \/ p = TmpPath(t)
             \/ \E i \in fs.tmp[t].items : p = TmpPath(t) \o <<i>>
    \/ \E n \in DOMAIN fs.reg :
          /\ fs.reg[n].kind = "dir"
          /\ \/ p = RegPath(n)
             \/ \E i \in fs.reg[n].items : p = RegPath(n) \o <<i>>

\* Path::exists (follows symlinks)
exists(fs, p) == RealDir(fs, Resolve(fs, p))

\* Path::canonicalize of an existing path
canonicalize(fs, p) == Resolve(fs, p)

\* ------------------------------------------------------------ cleanup
\* fn cleanup removing nothing
cleanup_nothing(fs) == fs

\* fn cleanup: remove every registry symlink whose target does not exist.
cleanup(fs) ==
    [fs EXCEPT !.reg =
        [n \in DOMAIN fs.reg |->
            IF is_symlink(fs, RegPath(n)) /\ ~exists(fs, read_link(fs, RegPath(n)))
            THEN NoEntry
            ELSE fs.reg[n]]]

\* fn cleanup as far as it gets before an item of read_dir is Err: only the
\* children in done have been looked at
cleanup_upto(fs, done) ==
    [fs EXCEPT !.reg =
        [n \in DOMAIN fs.reg |->
            IF n \in done /\ is_symlink(fs, RegPath(n))
                          /\ ~exists(fs, read_link(fs, RegPath(n)))
            THEN NoEntry
            ELSE fs.reg[n]]]

\* The I/O faults of the sweep: read_dir(tempdirs) is Err ("list"), or the
\* item of the child bad is Err ("entry") after the children in done were
\* handled (read_dir yields the children in no specified order).
ListFault == [at |-> "list", done |-> {}, bad |-> ""]
EntryFault(done, bad) == [at |-> "entry", done |-> done, bad |-> bad]
SweepFaults(fs) ==
    {ListFault} \cup
    UNION {{EntryFault(done, bad) : done \in SUBSET ({n \in DOMAIN fs.reg : fs.reg[n].kind # "none"} \ {bad})}
           : bad \in {n \in DOMAIN fs.reg : fs.reg[n].kind # "none"}}

\* fn cleanup returning Err: `read {tempdirs:?}` or `read direntry`
cleanup_failing(fs, fault) ==
    [fs |-> IF fault.at = "list" THEN fs ELSE cleanup_upto(fs, fault.done),
     ok |-> FALSE,
     msg |-> IF fault.at = "list" THEN "read tempdirs" ELSE "read direntry",
     back |-> 0]

\* ----------------------------------------------------------- new_name
DigitChars == <<"0", "1", "2", "3", "4", "5", "6", "7", "8", "9">>
IsDigit(c) == \E d \in 1..10 : DigitChars[d] = c
DigitVal(c) == (CHOOSE d \in 1..10 : DigitChars[d] = c) - 1

\* usize::MAX of a 64-bit target, in decimal
USIZE_MAX == "18446744073709551615"

RECURSIVE AllDigits(_)
AllDigits(s) ==
    Len(s) = 0 \/ (IsDigit(SubSeq(s, 1, 1)) /\ AllDigits(SubSeq(s, 2, Len(s))))

RECURSIVE StripZeros(_)
\* the decimal digits of a number without its leading zeros
StripZeros(s) ==
    IF Len(s) > 1 /\ SubSeq(s, 1, 1) = "0" THEN StripZeros(SubSeq(s, 2, Len(s))) ELSE s

RECURSIVE DigitsLess(_, _)
\* a < b for digit strings of one length
DigitsLess(a, b) ==
    IF Len(a) = 0 THEN FALSE
    ELSE IF SubSeq(a, 1, 1) # SubSeq(b, 1, 1)
    THEN DigitVal(SubSeq(a, 1, 1)) < DigitVal(SubSeq(b, 1, 1))
    ELSE DigitsLess(SubSeq(a, 2, Len(a)), SubSeq(b, 2, Len(b)))

\* a < b for numbers in decimal without leading zeros
DecLess(a, b) == Len(a) < Len(b) \/ (Len(a) = Len(b) /\ DigitsLess(a, b))

RECURSIVE DecSucc(_)
\* a + 1 in decimal
DecSucc(a) ==
    IF Len(a) = 0 THEN "1"
    ELSE IF SubSeq(a, Len(a), Len(a)) = "9"
    THEN DecSucc(SubSeq(a, 1, Len(a) - 1)) \o "0"
    ELSE SubSeq(a, 1, Len(a) - 1) \o DigitChars[DigitVal(SubSeq(a, Len(a), Len(a))) + 2]

\* the digits of a string that parses, after its optional "+"
ParseBody(s) == IF Len(s) > 0 /\ SubSeq(s, 1, 1) = "+" THEN SubSeq(s, 2, Len(s)) ELSE s

\* str::parse::<usize>: the value in decimal, or "" for Err (no digits, a
\* character that is no digit, or a value above usize::MAX)
parse_usize(s) ==
    IF Len(ParseBody(s)) = 0 \/ ~AllDigits(ParseBody(s)) THEN ""
    ELSE IF DecLess(USIZE_MAX, StripZeros(ParseBody(s))) THEN ""
    ELSE StripZeros(ParseBody(s))

\* read_dir: the registry's children (symlinks are listed whatever their target)
Children(fs) == {n \in DOMAIN fs.reg : fs.reg[n].kind # "none"}

\* the index a child contributes to highest_unnamed ("0": none)
UnnamedIndexOf(n) ==
    IF starts_with(n, UNNAMED) /\ parse_usize(strip_prefix(n, UNNAMED)) # ""
    THEN parse_usize(strip_prefix(n, UNNAMED))
    ELSE "0"
UnnamedIndexTable == [n \in Names \cup AllocNames |-> UnnamedIndexOf(n)]
UnnamedIndex(n) == UnnamedIndexTable[n]

\* the fold of highest_unnamed.max(i) from 0
SetMax(S) == IF S = {} THEN "0" ELSE CHOOSE m \in S : \A x \in S : ~DecLess(m, x)

\* what a panic leaves in place of a name
PANICKED == "panicked"

\* highest_unnamed + 1: at usize::MAX a build with overflow checks panics and
\* one without wraps to 0
add_one(h, checks) ==
    IF h = USIZE_MAX THEN (IF checks THEN PANICKED ELSE "0") ELSE DecSucc(h)

RECURSIVE Probe(_, _, _)
\* the loop of new_name: the first unnamed_<h+1> that does not exist
Probe(fs, h, checks) ==
    IF add_one(h, checks) = PANICKED THEN PANICKED
    ELSE IF exists(fs, RegPath(UnnamedName(add_one(h, checks))))
    THEN Probe(fs, add_one(h, checks), checks)
    ELSE UnnamedName(add_one(h, checks))

\* fn new_name in a build with (checks) or without overflow checks
new_name_in(fs, checks) ==
    Probe(fs, SetMax({UnnamedIndex(n) : n \in Children(fs)}), checks)

\* fn new_name of the release build
new_name(fs) == new_name_in(fs, FALSE)

\* --------------------------------------------------------- in_tempdir
RECURSIVE find_parent(_, _, _)
\* fn find_parent: the ancestor-or-self of path that is a child of tmp or tempdirs
find_parent(path, tmpRoot, tempdirs) ==
    IF Len(path) = 0 THEN NoneP
    ELSE IF Parent(path) = tmpRoot \/ Parent(path) = tempdirs THEN SomeP(path)
    ELSE find_parent(Parent(path), tmpRoot, tempdirs)

\* part.to_string_lossy().starts_with(TEMPDIR_PREFIX), tabulated for the
\* components the model's paths are made of
Components ==
    {"home", "tempdirs", "tmp", "work"} \cup Names \cup Items
    \cup {TmpName(t) : t \in TmpIds}
PrefixedTable == [c \in Components |-> starts_with(c, TEMPDIR_PREFIX)]
\* some component starts with TEMPDIR_PREFIX
HasPrefixedPart(p) == \E i \in 1..Len(p) : PrefixedTable[p[i]]

\* fn in_tempdir
in_tempdir(fs, tempdirs, cwd, pwd) ==
    IF pwd.some /\ HasPrefixedPart(canonicalize(fs, pwd.v))
    THEN find_parent(pwd.v, TMP, tempdirs)
    ELSE IF pwd.some /\ path_starts_with(pwd.v, tempdirs) /\ Len(pwd.v) > Len(tempdirs)
    THEN SomeP(tempdirs \o <<pwd.v[Len(tempdirs) + 1]>>)
    ELSE IF HasPrefixedPart(cwd)
    THEN find_parent(cwd, TMP, tempdirs)
    ELSE NoneP

\* ----------------------------------------------------- create_tempdir
\* fn create_tempdir without its exists() test
create_tempdir_unchecked(fs, tempdirs, name, cwd, pwd, symlink, dir) ==
    IF symlink
    THEN [fs |-> [reg |-> [fs.reg EXCEPT ![name] = LinkTo(dir)],
                  tmp |-> [fs.tmp EXCEPT ![dir] = TmpDir({})]],
          ret |-> tempdirs \o <<name>>, msg |-> "cding into", made |-> dir]
    ELSE [fs |-> [fs EXCEPT !.tmp[dir] = TmpDir({})],
          ret |-> TmpPath(dir), msg |-> "cding into", made |-> dir]

\* fn create_tempdir making the symlink whatever `symlink` says
create_tempdir_linking(fs, tempdirs, name, cwd, pwd, symlink, dir) ==
    IF exists(fs, tempdirs \o <<name>>)
    THEN [fs |-> fs, ret |-> IF pwd.some THEN pwd.v ELSE cwd,
          msg |-> "already exists", made |-> 0]
    ELSE [fs |-> [reg |-> [fs.reg EXCEPT ![name] = LinkTo(dir)],
                  tmp |-> [fs.tmp EXCEPT ![dir] = TmpDir({})]],
          ret |-> tempdirs \o <<name>>, msg |-> "cding into", made |-> dir]

\* fn create_tempdir; dir is the id of the directory TempDir::new creates
create_tempdir(fs, tempdirs, name, cwd, pwd, symlink, dir) ==
    IF exists(fs, tempdirs \o <<name>>)
    THEN [fs |-> fs, ret |-> IF pwd.some THEN pwd.v ELSE cwd,
          msg |-> "already exists", made |-> 0]
    ELSE IF symlink
    THEN [fs |-> [reg |-> [fs.reg EXCEPT ![name] = LinkTo(dir)],
                  tmp |-> [fs.tmp EXCEPT ![dir] = TmpDir({})]],
          ret |-> tempdirs \o <<name>>, msg |-> "cding into", made |-> dir]
    ELSE [fs |-> [fs EXCEPT !.tmp[dir] = TmpDir({})],
          ret |-> TmpPath(dir), msg |-> "cding into", made |-> dir]

\* ------------------------------------------------------------ persist
\* What a function of the program yields: the filesystem after it, whether it
\* returned Ok, the last message it printed, and the temp dir id of the symlink
\* it acted on or the directory it created (0: none).
Result(fs, ok, msg, back) == [fs |-> fs, ok |-> ok, msg |-> msg, back |-> back]

\* fs_extra::dir::move_dir with copy_inside, the symlink at p already removed:
\* the tree of temp dir t moves to p and the source goes; Err without a source
move_dir(fs, t, p) ==
    IF ~fs.tmp[t].ex
    THEN Result(fs, FALSE, "moving from", t)
    ELSE Result([reg |-> [fs.reg EXCEPT ![NameOf(p)] = DirOf(fs.tmp[t].items)],
                 tmp |-> [fs.tmp EXCEPT ![t] = NoDir]],
                TRUE, "is now persistent", t)

\* fn persist without its is_symlink() test: whatever is at p is replaced
persist_replacing(fs, p) ==
    IF IsRegChild(p)
    THEN Result([fs EXCEPT !.reg[NameOf(p)] = DirOf({})], TRUE, "is now persistent", 0)
    ELSE Result(fs, TRUE, "is now persistent", 0)

\* fn persist (inside main)
persist(fs, p) ==
    IF ~is_symlink(fs, p)
    THEN Result(fs, TRUE, "was already persistent", 0)
    ELSE move_dir([fs EXCEPT !.reg[NameOf(p)] = NoEntry], fs.reg[NameOf(p)].target, p)

\* std::fs::remove_dir_all: Err when the path is no directory
remove_dir_all(fs, p) ==
    IF IsRegChild(p) /\ fs.reg[NameOf(p)].kind = "dir"
    THEN Result([fs EXCEPT !.reg[NameOf(p)] = NoEntry], TRUE, "", 0)
    ELSE IF IsTmpChild(p) /\ fs.tmp[TmpIdOf(p)].ex
    THEN Result([fs EXCEPT !.tmp[TmpIdOf(p)] = NoDir], TRUE, "", 0)
    ELSE Result(fs, FALSE, "", 0)

\* symlink::remove_symlink_auto (remove_file): Err on a directory or on nothing
remove_symlink_auto(fs, p) ==
    IF is_symlink(fs, p)
    THEN Result([fs EXCEPT !.reg[NameOf(p)] = NoEntry], TRUE, "", fs.reg[NameOf(p)].target)
    ELSE Result(fs, FALSE, "", 0)

\* a result about another temp dir
Backed(r, back) == Result(r.fs, r.ok, r.msg, back)

\* a result with another message
Saying(r, msg) == Result(r.fs, r.ok, msg, r.back)

\* ------------------------------------------------------------- delete
\* fn delete
delete(fs, path) ==
    IF is_symlink(fs, path)
    THEN Saying(remove_symlink_auto(fs, path), "deleting")
    ELSE Saying(remove_dir_all(fs, path), "deleting (persistent)")

\* ------------------------------------------------------------- rename
\* std::fs::rename of a directory onto a free registry name; xdev: the two
\* paths are on different filesystems
fs_rename(fs, old, new, xdev) ==
    IF IsRegChild(old) /\ fs.reg[NameOf(old)].kind = "dir"
    THEN Result([fs EXCEPT !.reg[NameOf(new)] = fs.reg[NameOf(old)],
                           !.reg[NameOf(old)] = NoEntry],
                TRUE, "renaming persistent tempdir", 0)
    ELSE IF IsTmpChild(old) /\ fs.tmp[TmpIdOf(old)].ex /\ ~xdev
    THEN Result([reg |-> [fs.reg EXCEPT ![NameOf(new)] = DirOf(fs.tmp[TmpIdOf(old)].items)],
                 tmp |-> [fs.tmp EXCEPT ![TmpIdOf(old)] = NoDir]],
                TRUE, "renaming persistent tempdir", 0)
    ELSE Result(fs, FALSE, "renaming persistent tempdir", 0)

\* fn rename without its exists() test
rename_unchecked(fs, old, new, xdev) ==
    IF ~is_symlink(fs, old)
    THEN [r |-> fs_rename(fs, old, new, xdev), ret |-> TRUE]
    ELSE [r |-> Result([fs EXCEPT !.reg[NameOf(new)] = fs.reg[NameOf(old)],
                                  !.reg[NameOf(old)] = NoEntry],
                       TRUE, "renaming tempdir", fs.reg[NameOf(old)].target),
          ret |-> TRUE]

\* fn rename; ret is the bool it returns
rename(fs, old, new, xdev) ==
    IF exists(fs, new)
    THEN [r |-> Result(fs, TRUE, "can't rename", 0), ret |-> FALSE]
    ELSE IF ~is_symlink(fs, old)
    THEN [r |-> fs_rename(fs, old, new, xdev), ret |-> TRUE]
    ELSE [r |-> Result([fs EXCEPT !.reg[NameOf(new)] = fs.reg[NameOf(old)],
                                  !.reg[NameOf(old)] = NoEntry],
                       TRUE, "renaming tempdir", fs.reg[NameOf(old)].target),
          ret |-> TRUE]

\* --------------------------------------------------------- delete_all
\* fn delete_all without its is_symlink() test
delete_all_entries(fs) ==
    Result([fs EXCEPT !.reg = [n \in Names |-> NoEntry]],
           TRUE,
           IF \E n \in Names : fs.reg[n].kind # "none" THEN "deleting" ELSE "",
           0)

\* fn delete_all
delete_all(fs) ==
    Result([fs EXCEPT !.reg = [n \in Names |->
                IF fs.reg[n].kind = "link" THEN NoEntry ELSE fs.reg[n]]],
           TRUE,
           IF \E n \in Names : fs.reg[n].kind = "link" THEN "deleting" ELSE "",
           0)

\* ---------------------------------------------------- active_tempdirs
\* fn active_tempdirs: the tag printed for each child
active_tempdirs(fs) ==
    [n \in Names |->
        IF fs.reg[n].kind = "none" THEN "absent"
        ELSE IF is_symlink(fs, RegPath(n)) THEN "ephemeral"
        ELSE "persistent"]

\* --------------------------------------------------------------- main
\* What one arm of main's match yields: a function's result and go_to.
Outcome(r, go) == [fs |-> r.fs, ok |-> r.ok, go |-> go, msg |-> r.msg, back |-> r.back]

\* the tempdirs.join(n) branch of Persist without its exists() test
PersistNamed_unchecked(fs, n) == Outcome(persist(fs, RegPath(n)), SomeP(TEMPDIRS))

\* persist of tempdirs.join(n), after the exists() test of its branch
PersistNamed(fs, n) ==
    IF ~exists(fs, RegPath(n))
    THEN Outcome(Result(fs, TRUE, "doesn't exist", 0), NoneP)
    ELSE Outcome(persist(fs, RegPath(n)), SomeP(TEMPDIRS))

\* Some(CliCommand::Persist { name }), i the result of in_tempdir
PersistAt(fs, args, i) ==
    IF i.some THEN Outcome(persist(fs, i.v), SomeP(i.v))
    ELSE IF args.name.some THEN PersistNamed(fs, args.name.v)
    ELSE IF args.sub.some THEN PersistNamed(fs, args.sub.v)
    ELSE Outcome(Result(fs, TRUE, "not in a tempdir", 0), NoneP)

CmdPersist(fs, args, cwd, pwd) == PersistAt(fs, args, in_tempdir(fs, TEMPDIRS, cwd, pwd))

\* the args.name branch of Delete: remove_symlink_auto(p)?, then delete(p)?,
\* u the result of the first
UnlinkThenDelete(u, p) ==
    IF ~u.ok THEN Outcome(u, NoneP)
    ELSE Outcome(Backed(delete(u.fs, p), u.back), SomeP(TEMPDIRS))

\* Delete with the top-level name looked at before in_tempdir
DeleteAt_name_first(fs, args, i) ==
    IF args.name.some
    THEN IF ~exists(fs, RegPath(args.name.v))
         THEN Outcome(Result(fs, TRUE, "doesn't exist", 0), NoneP)
         ELSE UnlinkThenDelete(remove_symlink_auto(fs, RegPath(args.name.v)),
                               RegPath(args.name.v))
    ELSE IF i.some THEN Outcome(delete(fs, i.v), SomeP(TEMPDIRS))
    ELSE IF args.sub.some
    THEN IF ~exists(fs, RegPath(args.sub.v))
         THEN Outcome(Result(fs, TRUE, "doesn't exist", 0), NoneP)
         ELSE Outcome(delete(fs, RegPath(args.sub.v)), SomeP(TEMPDIRS))
    ELSE Outcome(Result(fs, TRUE, "not in a tempdir", 0), NoneP)

\* Some(CliCommand::Delete { all: false, name }), i the result of in_tempdir
DeleteAt(fs, args, i) ==
    IF i.some THEN Outcome(delete(fs, i.v), SomeP(TEMPDIRS))
    ELSE IF args.name.some
    THEN IF ~exists(fs, RegPath(args.name.v))
         THEN Outcome(Result(fs, TRUE, "doesn't exist", 0), NoneP)
         ELSE UnlinkThenDelete(remove_symlink_auto(fs, RegPath(args.name.v)),
                               RegPath(args.name.v))
    ELSE IF args.sub.some
    THEN IF ~exists(fs, RegPath(args.sub.v))
         THEN Outcome(Result(fs, TRUE, "doesn't exist", 0), NoneP)
         ELSE Outcome(delete(fs, RegPath(args.sub.v)), SomeP(TEMPDIRS))
    ELSE Outcome(Result(fs, TRUE, "not in a tempdir", 0), NoneP)

CmdDelete(fs, args, cwd, pwd) == DeleteAt(fs, args, in_tempdir(fs, TEMPDIRS, cwd, pwd))

\* rename of tempdirs.join(n), after the exists() test of its branch
RenameNamed(fs, n, newName, xdev) ==
    IF ~exists(fs, RegPath(n))
    THEN Outcome(Result(fs, TRUE, "doesn't exist", 0), NoneP)
    ELSE Outcome(rename(fs, RegPath(n), RegPath(newName), xdev).r, NoneP)

\* the in_tempdir branch of Rename, x what rename returned
RenamedHere(x, newName) == Outcome(x.r, IF x.r.ok /\ x.ret THEN SomeP(RegPath(newName)) ELSE NoneP)

\* Some(CliCommand::Rename { from, to }) with from given, i the result of in_tempdir
RenameAt(fs, args, newName, i, xdev) ==
    IF i.some THEN RenamedHere(rename(fs, i.v, RegPath(newName), xdev), newName)
    ELSE IF args.name.some THEN RenameNamed(fs, args.name.v, newName, xdev)
    ELSE IF args.to.some THEN RenameNamed(fs, args.from.v, newName, xdev)
    ELSE Outcome(Result(fs, TRUE, "not in a tempdir", 0), NoneP)

\* Some(CliCommand::Rename { from, to })
CmdRename(fs, args, cwd, pwd, xdev) ==
    IF ~args.from.some
    THEN Outcome(Result(fs, TRUE, "you have to specify a new name", 0), NoneP)
    ELSE RenameAt(fs, args, IF args.to.some THEN args.to.v ELSE args.from.v,
                  in_tempdir(fs, TEMPDIRS, cwd, pwd), xdev)

\* Some(CliCommand::Status), i the result of in_tempdir: the message about the
\* caller's location
StatusAt(fs, i) ==
    Outcome(Result(fs, TRUE,
                   IF ~i.some THEN "currently not in a tempdir"
                   ELSE IF is_symlink(fs, i.v) THEN "currently in tempdir"
                   ELSE "currently in persisted tempdir",
                   0),
            NoneP)

CmdStatus(fs, cwd, pwd) == StatusAt(fs, in_tempdir(fs, TEMPDIRS, cwd, pwd))

\* None, Some(CliCommand::Hidden) and the first line of fn shell, c what
\* create_tempdir returned
Created(c) == Outcome(Result(c.fs, TRUE, c.msg, c.made), SomeP(c.ret))

CmdCreate(fs, name, cwd, pwd, symlink, dir) ==
    Created(create_tempdir(fs, TEMPDIRS, name, cwd, pwd, symlink, dir))

\* Some(CliCommand::Delete { all: true, .. })
CmdDeleteAll(fs) == Outcome(delete_all(fs), SomeP(TEMPDIRS))

\* the name main works with: args.name, else new_name(&tempdirs)
MainName(fs, args) == IF args.name.some THEN args.name.v ELSE new_name(fs)

\* let orig = pwd.clone().unwrap_or(cwd.clone())
Orig(cwd, pwd) == IF pwd.some THEN pwd.v ELSE cwd

\* An invocation's arguments and the choices its environment makes for it.
Args(name, cmd, sub, from, to) ==
    [name |-> name, cmd |-> cmd, sub |-> sub, from |-> from, to |-> to]
Env(dir, xdev) == [dir |-> dir, xdev |-> xdev]

\* main's match on args.command, on the swept filesystem
Command(swept, args, cwd, pwd, env) ==
    CASE args.cmd = "create" ->
            CmdCreate(swept, MainName(swept, args), cwd, pwd, TRUE, env.dir)
      [] args.cmd = "hidden" ->
            CmdCreate(swept, MainName(swept, args), cwd, pwd, FALSE, env.dir)
      [] args.cmd = "shell" ->
            CmdCreate(swept, MainName(swept, args), cwd, pwd, TRUE, env.dir)
      [] args.cmd = "persist" -> CmdPersist(swept, args, cwd, pwd)
      [] args.cmd = "delete" -> CmdDelete(swept, args, cwd, pwd)
      [] args.cmd = "deleteall" -> CmdDeleteAll(swept)
      [] args.cmd = "rename" -> CmdRename(swept, args, cwd, pwd, env.xdev)
      [] args.cmd = "status" -> CmdStatus(swept, cwd, pwd)

\* The end of main: seen is the filesystem the command was dispatched on, out
\* the path printed on stdout (none when main returns Err), code the exit
\* code, listing what active_tempdirs printed (Status).
Exit(swept, o, cwd, pwd) ==
    [fs |-> o.fs, seen |-> swept, ok |-> o.ok, go |-> o.go, msg |-> o.msg,
     back |-> o.back,
     out |-> IF ~o.ok THEN NoneP ELSE IF o.go.some THEN o.go ELSE SomeP(Orig(cwd, pwd)),
     code |-> IF o.ok THEN 0 ELSE 1,
     listing |-> active_tempdirs(o.fs)]

Dispatch(swept, args, cwd, pwd, env) ==
    Exit(swept, Command(swept, args, cwd, pwd, env), cwd, pwd)

\* fn main without the call of cleanup
main_unswept(fs, args, cwd, pwd, env) == Dispatch(fs, args, cwd, pwd, env)

\* fn main, up to the wait of `shell`: the startup sweep, then the command
main(fs, args, cwd, pwd, env) == Dispatch(cleanup(fs), args, cwd, pwd, env)

\* `cleanup(&tempdirs)?` of main when cleanup returned the Err s: main returns
\* it, no command is dispatched
Aborted(s, cwd, pwd) == Exit(s.fs, [fs |-> s.fs, ok |-> FALSE, go |-> NoneP, msg |-> s.msg, back |-> 0], cwd, pwd)

\* fn main of an invocation whose sweep meets the fault
main_failing(fs, fault, cwd, pwd) == Aborted(cleanup_failing(fs, fault), cwd, pwd)

\* fn shell without remove_dir_all(&target)
KeepTarget(u) == u

\* remove_dir_all(&target) of fn shell, u the result of the unlink before it
RemoveTarget(u) == Backed(remove_dir_all(u.fs, TmpPath(u.back)), u.back)

\* the second half of fn shell, after child.wait()
shell_exit(fs, res) ==
    IF is_symlink(fs, res)
    THEN Outcome(RemoveTarget(remove_symlink_auto(fs, res)), NoneP)
    ELSE Outcome(Result(fs, TRUE, "", 0), NoneP)

\* ------------------------------------------------------------ callers
FS == [reg |-> reg, tmp |-> tmp]

\* where a caller's shell can be
Locs ==
    {ELSEWHERE, TEMPDIRS}
    \cup {RegPath(n) : n \in Names}
    \cup {RegPath(n) \o <<i>> : n \in Names, i \in Items}
    \cup {TmpPath(t) : t \in TmpIds}
    \cup {TmpPath(t) \o <<i>> : t \in TmpIds, i \in Items}

\* (cwd, PWD) of a caller: PWD is the shell's logical path of an existing
\* directory and cwd its resolved path, or PWD is empty
Callers(fs) ==
    {[pwd |-> SomeP(p), cwd |-> canonicalize(fs, p)] : p \in {q \in Locs : exists(fs, q)}}
    \cup {[pwd |-> NoneP, cwd |-> p] : p \in {q \in Locs : exists(fs, q) /\ Resolve(fs, q) = q}}

\* TempDir::new creates a directory that does not exist yet
FreshDirs(fs) == {t \in TmpIds : ~fs.tmp[t].ex}

\* An invocation ends: the filesystem is as it left it.  del: the temp dirs
\* this invocation's delete unlinked.
Finish(r, del) ==
    /\ reg' = r.fs.reg
    /\ tmp' = r.fs.tmp
    /\ deleted' = {t \in deleted \cup del : r.fs.tmp[t].ex}

\* the end of a delete: the temp dir its symlink pointed to is left behind
FinishDelete(r) == Finish(r, IF r.msg = "deleting" /\ r.back # 0 THEN {r.back} ELSE {})

\* A running `t shell` session: res, the path its sub-shell started in, and
\* dir, history: the temp dir create_tempdir made for it (0: none, or that
\* directory is no longer under the temp root).
Session(res, dir) == [some |-> TRUE, v |-> res, dir |-> dir]

\* the session after an invocation that left the temp root as tmpAfter
Kept(s, tmpAfter) ==
    IF s.some /\ s.dir # 0 /\ ~tmpAfter[s.dir].ex THEN Session(s.v, 0) ELSE s

\* the sub-shell of `t shell` is running in res
FinishShell(r) == Finish(r, {}) /\ sess' = Session(r.go.v, r.back)

\* ------------------------------------------------------------ actions
Init ==
    /\ reg = [n \in Names |-> NoEntry]
    /\ tmp = [t \in TmpIds |-> NoDir]
    /\ sess = NoneP
    /\ deleted = {}

\* Whether TempDir::new can return dir in an invocation with these arguments:
\* it is called only when the name is free, and creates a new directory.
CanCreateOn(fs, swept, n, dir) ==
    /\ n \in Names
    /\ dir \in FreshDirs(fs) \/ exists(swept, RegPath(n))

NameOn(swept, name) == MainName(swept, Args(name, "create", NoneN, NoneN, NoneN))

CanCreate(fs, name, dir) == CanCreateOn(fs, cleanup(fs), NameOn(cleanup(fs), name), dir)

\* t-rs [name]
Create ==
    \E c \in Callers(FS), name \in OptNames, dir \in TmpIds :
        /\ CanCreate(FS, name, dir)
        /\ Finish(main(FS, Args(name, "create", NoneN, NoneN, NoneN),
                       c.cwd, c.pwd, Env(dir, FALSE)), {})
        /\ sess' = Kept(sess, tmp')

\* t-rs [name] hidden
Hidden ==
    \E c \in Callers(FS), name \in OptNames, dir \in TmpIds :
        /\ CanCreate(FS, name, dir)
        /\ Finish(main(FS, Args(name, "hidden", NoneN, NoneN, NoneN),
                       c.cwd, c.pwd, Env(dir, FALSE)), {})
        /\ sess' = Kept(sess, tmp')

\* t-rs [name] persist [name]
Persist ==
    \E c \in Callers(FS), name \in OptNames, sub \in OptNames :
        /\ Finish(main(FS, Args(name, "persist", sub, NoneN, NoneN),
                       c.cwd, c.pwd, Env(1, FALSE)), {})
        /\ sess' = Kept(sess, tmp')

\* t-rs [name] delete [name]
Delete ==
    \E c \in Callers(FS), name \in OptNames, sub \in OptNames :
        /\ FinishDelete(main(FS, Args(name, "delete", sub, NoneN, NoneN),
                             c.cwd, c.pwd, Env(1, FALSE)))
        /\ sess' = Kept(sess, tmp')

\* t-rs [name] delete --all
DeleteAll ==
    \E c \in Callers(FS), name \in OptNames :
        /\ Finish(main(FS, Args(name, "deleteall", NoneN, NoneN, NoneN),
                       c.cwd, c.pwd, Env(1, FALSE)), {})
        /\ sess' = Kept(sess, tmp')

\* only a rename out of TMP can cross filesystems
RenameEnvs(c) == IF HasPrefixedPart(c.cwd) THEN BOOLEAN ELSE {FALSE}

\* t-rs [name] rename [from] [to]
Rename ==
    \E c \in Callers(FS), name \in OptNames, from \in OptNames, to \in OptNames :
        \E xdev \in RenameEnvs(c) :
            /\ to.some => from.some
            /\ Finish(main(FS, Args(name, "rename", NoneN, from, to),
                           c.cwd, c.pwd, Env(1, xdev)), {})
            /\ sess' = Kept(sess, tmp')

\* t-rs [name] status
Status ==
    \E c \in Callers(FS), name \in OptNames :
        /\ Finish(main(FS, Args(name, "status", NoneN, NoneN, NoneN),
                       c.cwd, c.pwd, Env(1, FALSE)), {})
        /\ sess' = Kept(sess, tmp')

\* t-rs [name] shell, up to the spawn of the sub-shell in res
ShellStart ==
    \E c \in Callers(FS), name \in OptNames, dir \in TmpIds :
        /\ ~sess.some
        /\ CanCreate(FS, name, dir)
        /\ FinishShell(main(FS, Args(name, "shell", NoneN, NoneN, NoneN),
                            c.cwd, c.pwd, Env(dir, FALSE)))

\* the sub-shell exits: the rest of fn shell, then main prints orig and exits
ShellExit ==
    /\ sess.some
    /\ Finish(shell_exit(FS, sess.v), {})
    /\ sess' = NoneP

\* the user, in a scratch directory, makes a subdirectory
UserWrite ==
    /\ \/ \E t \in TmpIds, i \in Items :
             /\ tmp[t].ex /\ i \notin tmp[t].items
             /\ tmp' = [tmp EXCEPT ![t].items = @ \cup {i}]
             /\ UNCHANGED reg
       \/ \E n \in Names, i \in Items :
             /\ reg[n].kind = "dir" /\ i \notin reg[n].items
             /\ reg' = [reg EXCEPT ![n].items = @ \cup {i}]
             /\ UNCHANGED tmp
    /\ UNCHANGED <<sess, deleted>>

\* a reboot: the OS clears the temp root and every process ends
Reboot ==
    /\ tmp' = [t \in TmpIds |-> NoDir]
    /\ sess' = NoneP
    /\ deleted' = {}
    /\ UNCHANGED reg

\* an invocation (of any command) whose startup sweep meets an I/O fault
SweepFails ==
    \E c \in Callers(FS), fault \in SweepFaults(FS) :
        /\ Finish(main_failing(FS, fault, c.cwd, c.pwd), {})
        /\ sess' = Kept(sess, tmp')

\* one invocation of the tool that returns without waiting for a sub-shell
Invoke ==
    \/ Create
    \/ Hidden
    \/ Persist
    \/ Delete
    \/ DeleteAll
    \/ Rename
    \/ Status

Next ==
    \/ Invoke
    \/ UserWrite
    \/ Reboot
    \/ SweepFails

Spec == Init /\ [][Next]_vars

\* every run keeps invoking the tool: an invocation whose startup sweep has
\* something to remove is eventually made
FairSpec == Spec /\ WF_vars(Status)

\* the invocations made while a `t shell` session runs, and the session
SessNext ==
    \/ ShellStart
    \/ ShellExit
    \/ Create
    \/ Persist
    \/ Delete
    \/ Rename
    \/ UserWrite
    \/ Reboot

SessSpec == Init /\ [][SessNext]_vars

\* the tool alone: invocations and sessions, nothing else touches the
\* registry or the temp root
ToolNext ==
    \/ Invoke
    \/ ShellStart
    \/ ShellExit

ToolSpec == Init /\ [][ToolNext]_vars

\* any registry of the children new_name is studied on
NameInit ==
    /\ reg \in [AllocNames -> {NoEntry, LinkTo(1), DirOf({})}]
    /\ tmp \in [TmpIds -> {NoDir, TmpDir({})}]
    /\ sess = NoneP
    /\ deleted = {}

\* t-rs without a name, in a build with or without overflow checks: the
\* sweep, new_name, and create_tempdir on the name it returned
Allocate ==
    \E checks \in BOOLEAN, dir \in FreshDirs(FS) :
        /\ new_name_in(cleanup(FS), checks) \in DOMAIN reg
        /\ Finish(Created(create_tempdir(cleanup(FS), TEMPDIRS,
                                         new_name_in(cleanup(FS), checks),
                                         ELSEWHERE, SomeP(ELSEWHERE), TRUE, dir)), {})
        /\ sess' = Kept(sess, tmp')

NameSpec == NameInit /\ [][Allocate]_vars

\* ------------------------------------------------------- properties
\* the registry has a child called n
Present(fs, n) == fs.reg[n].kind # "none"

\* the new name of a rename: `to`, else `from`
NewName(from, to) == IF to.some THEN to.v ELSE from

\* r is an invocation that left the filesystem as it found it after the sweep
\* and printed the caller's own location
NoEffect(r, c) ==
    /\ r.fs = r.seen
    /\ r.code = 0
    /\ r.out = SomeP(Orig(c.cwd, c.pwd))

\* the paths fn rename can be handed as old
OldPaths == {RegPath(n) : n \in Names} \cup {TmpPath(t) : t \in TmpIds}

RenameRefuses(fs, old, m, xdev) ==
    rename(fs, old, RegPath(m), xdev) = [r |-> Result(fs, TRUE, "can't rename", 0), ret |-> FALSE]

\* a rename invocation that changed nothing: fn rename refused, or there was
\* no old entry to hand to it
RenameConflict(r, c) ==
    /\ NoEffect(r, c)
    /\ r.msg \in {"can't rename", "doesn't exist", "not in a tempdir"}

\* C4: Rename never overwrites.  When the new name m is already in the
\* registry, fn rename changes nothing, prints "can't rename" and returns
\* false, and a rename invocation leaves the registry and the temp root as
\* they were and prints the caller's location.
RenameNeverOverwrites ==
    /\ \A m \in Names, old \in OldPaths, xdev \in BOOLEAN :
           Present(cleanup(FS), m) => RenameRefuses(cleanup(FS), old, m, xdev)
    /\ \A c \in Callers(FS), name \in OptNames, from \in Names, to \in OptNames :
           \A xdev \in RenameEnvs(c) :
               Present(cleanup(FS), NewName(from, to)) =>
                   RenameConflict(main(FS, Args(name, "rename", NoneN, SomeN(from), to),
                                       c.cwd, c.pwd, Env(1, xdev)), c)

\* an entry is renamed onto the name of another entry, and refused
RenameConflictSeen ==
    \E c \in Callers(FS), n \in Names, m \in Names :
        /\ n # m
        /\ Present(cleanup(FS), n)
        /\ Present(cleanup(FS), m)
        /\ main(FS, Args(NoneN, "rename", NoneN, SomeN(n), SomeN(m)),
                c.cwd, c.pwd, Env(1, FALSE)).msg = "can't rename"

CreateRefused(r, c, fs) ==
    /\ NoEffect(r, c)
    /\ r.fs.tmp = fs.tmp
    /\ r.back = 0
    /\ r.msg = "already exists"

\* C5: Create(n), visible or hidden, when registry/n already exists: it
\* prints the caller's original location, creates no temp directory and
\* leaves the registry unchanged.
CreateExistingIsIdempotent ==
    \A c \in Callers(FS), n \in Names, dir \in TmpIds, cmd \in {"create", "hidden"} :
        Present(cleanup(FS), n) =>
            CreateRefused(main(FS, Args(SomeN(n), cmd, NoneN, NoneN, NoneN),
                               c.cwd, c.pwd, Env(dir, FALSE)), c, FS)

\* a hidden Create on a name that a persistent entry has, with a temp
\* directory still to hand out
CreateExistingSeen ==
    \E c \in Callers(FS), n \in Names, dir \in FreshDirs(FS) :
        /\ reg[n].kind = "dir"
        /\ main(FS, Args(SomeN(n), "hidden", NoneN, NoneN, NoneN),
                c.cwd, c.pwd, Env(dir, FALSE)).msg = "already exists"

OnlySymlinksGone(r) ==
    /\ r.code = 0
    /\ r.fs.tmp = r.seen.tmp
    /\ \A n \in Names :
           r.fs.reg[n] = IF r.seen.reg[n].kind = "link" THEN NoEntry ELSE r.seen.reg[n]

\* C8: DeleteAll removes every symlink entry from the registry and leaves
\* every real-directory entry and its contents untouched.
DeleteAllKeepsPersistent ==
    \A c \in Callers(FS), name \in OptNames :
        OnlySymlinksGone(main(FS, Args(name, "deleteall", NoneN, NoneN, NoneN),
                              c.cwd, c.pwd, Env(1, FALSE)))

\* a registry with an ephemeral and a non-empty persistent entry, of which
\* DeleteAll leaves the persistent one
DeleteAllSeen ==
    \E n \in Names, m \in Names :
        /\ reg[n].kind = "link" /\ tmp[reg[n].target].ex
        /\ reg[m].kind = "dir" /\ reg[m].items # {}
        /\ main(FS, Args(NoneN, "deleteall", NoneN, NoneN, NoneN),
                ELSEWHERE, SomeP(ELSEWHERE), Env(1, FALSE)).fs.reg
               = [reg EXCEPT ![n] = NoEntry]

\* the caller once their shell has changed directory to the printed path p
MovedTo(fs, p) == [pwd |-> SomeP(p), cwd |-> canonicalize(fs, p)]

\* what `t-rs status` lists for the caller c
StatusListing(fs, c) ==
    main(fs, Args(NoneN, "status", NoneN, NoneN, NoneN), c.cwd, c.pwd, Env(1, FALSE)).listing

\* r is a visible create of n on the new directory dir
CreatedVisible(r, n, dir) ==
    /\ r.code = 0
    /\ r.fs.tmp[dir] = TmpDir({})
    /\ \A t \in TmpIds \ {dir} : r.fs.tmp[t] = r.seen.tmp[t]
    /\ is_symlink(r.fs, RegPath(n))
    /\ read_link(r.fs, RegPath(n)) = TmpPath(dir)
    /\ Parent(read_link(r.fs, RegPath(n))) = TMP
    /\ starts_with(NameOf(read_link(r.fs, RegPath(n))), TEMPDIR_PREFIX)
    /\ \A m \in Names \ {n} :
           /\ r.fs.reg[m] = r.seen.reg[m]
           /\ r.fs.reg[m] # LinkTo(dir)
    /\ r.out = SomeP(RegPath(n))
    /\ StatusListing(r.fs, MovedTo(r.fs, RegPath(n)))[n] = "ephemeral"

\* C6: for every name n not in the registry, a visible Create(n), with n
\* given or allocated, makes a new directory under the temp root whose name
\* has the prefix and that no other entry links to, makes registry/n a
\* symlink to it, prints registry/n, a following Status lists n as
\* ephemeral, and every other entry is as the sweep left it.
VisibleCreateMakesEphemeral ==
    \A c \in Callers(FS), name \in OptNames, dir \in FreshDirs(FS) :
        (/\ NameOn(cleanup(FS), name) \in Names
         /\ ~Present(cleanup(FS), NameOn(cleanup(FS), name))) =>
            CreatedVisible(main(FS, Args(name, "create", NoneN, NoneN, NoneN),
                                c.cwd, c.pwd, Env(dir, FALSE)),
                           NameOn(cleanup(FS), name), dir)

\* a visible create with an allocated name next to a live ephemeral entry
VisibleCreateSeen ==
    \E c \in Callers(FS), dir \in FreshDirs(FS) :
        /\ reg["a"].kind = "link" /\ tmp[reg["a"].target].ex
        /\ ~Present(cleanup(FS), new_name(cleanup(FS)))
        /\ main(FS, Args(NoneN, "create", NoneN, NoneN, NoneN),
                c.cwd, c.pwd, Env(dir, FALSE)).fs.reg[UnnamedName("1")] = LinkTo(dir)

\* registry/n is a symlink whose target does not exist
Stale(fs, n) == is_symlink(fs, RegPath(n)) /\ ~exists(fs, read_link(fs, RegPath(n)))

\* swept is fs with exactly its stale symlinks removed
SweptFrom(fs, swept) ==
    /\ swept.tmp = fs.tmp
    /\ \A n \in Names : swept.reg[n] = IF Stale(fs, n) THEN NoEntry ELSE fs.reg[n]

\* C10: the startup sweep removes every registry symlink whose target does
\* not exist and leaves every other symlink, every real directory and the
\* temp root untouched, and every command is dispatched on the swept
\* registry, so that none observes a stale symlink.
ReaperSweepsFirst ==
    /\ SweptFrom(FS, cleanup(FS))
    /\ \A c \in Callers(FS), name \in OptNames, sub \in OptNames :
           \A cmd \in {"persist", "delete", "deleteall", "rename", "status"} :
               SweptFrom(FS, main(FS, Args(name, cmd, sub, sub, NoneN),
                                  c.cwd, c.pwd, Env(1, FALSE)).seen)
    /\ \A c \in Callers(FS), n \in Names, dir \in FreshDirs(FS) :
           \A cmd \in {"create", "hidden", "shell"} :
               SweptFrom(FS, main(FS, Args(SomeN(n), cmd, NoneN, NoneN, NoneN),
                                  c.cwd, c.pwd, Env(dir, FALSE)).seen)

\* a stale symlink next to a live one, of which an invocation removes the stale
StaleLinkSeen ==
    \E n \in Names, m \in Names :
        /\ Stale(FS, n)
        /\ reg[m].kind = "link" /\ ~Stale(FS, m)
        /\ main(FS, Args(NoneN, "status", NoneN, NoneN, NoneN),
                ELSEWHERE, SomeP(ELSEWHERE), Env(1, FALSE)).fs.reg
               = [reg EXCEPT ![n] = NoEntry]

\* the caller c is in the directory of the registry entry n, or below it
Inside(fs, c, n) == Present(fs, n) /\ path_starts_with(c.cwd, Resolve(fs, RegPath(n)))

\* C7: whenever in_tempdir reports the caller to be inside the directory of
\* a registry entry, the path it returns is registry/name of that entry,
\* whether the caller got there by the registry path or by the resolved
\* temp path, with PWD set or empty.
ClassifierReturnsRegistryPath ==
    \A c \in Callers(FS), n \in Names :
        (/\ Inside(cleanup(FS), c, n)
         /\ in_tempdir(cleanup(FS), TEMPDIRS, c.cwd, c.pwd).some) =>
            in_tempdir(cleanup(FS), TEMPDIRS, c.cwd, c.pwd).v = RegPath(n)

\* the caller is in no scratch directory: neither under the registry nor
\* under the temp root
Outside(c) == ~path_starts_with(c.cwd, TEMPDIRS) /\ ~path_starts_with(c.cwd, TMP)

\* the entry a persist acts on: the one the caller is in, else the one named
PersistOf(fs, c, name, sub, n) ==
    \/ Inside(fs, c, n)
    \/ Outside(c) /\ (IF name.some THEN name.v = n ELSE sub = SomeN(n))

\* r made the ephemeral entry n, which linked to temp dir t, persistent
Persisted(r, n, t) ==
    /\ r.seen.reg[n] = LinkTo(t)
    /\ r.fs.reg[n] = DirOf(r.seen.tmp[t].items)
    /\ ~r.fs.tmp[t].ex

\* C1: Persist on an ephemeral entry n, resolved from the caller's location
\* or from a name argument: afterwards registry/n is a real directory with
\* exactly what the backing temp directory held, and that directory is gone.
PersistMakesDirectory ==
    \A c \in Callers(FS), name \in OptNames, sub \in OptNames, n \in Names :
        (/\ PersistOf(cleanup(FS), c, name, sub, n)
         /\ cleanup(FS).reg[n].kind = "link") =>
            Persisted(main(FS, Args(name, "persist", sub, NoneN, NoneN),
                           c.cwd, c.pwd, Env(1, FALSE)),
                      n, cleanup(FS).reg[n].target)

\* the entry a rename acts on: the one the caller is in, else the one named
\* (by the name argument, else by `from` when `to` is given)
RenameOf(fs, c, name, from, to, n) ==
    \/ Inside(fs, c, n)
    \/ Outside(c) /\ (IF name.some THEN name.v = n ELSE to.some /\ from = n)

\* r moved the entry n to the name m
Renamed(r, n, m) ==
    /\ r.fs.reg[m] = r.seen.reg[n]
    /\ r.fs.reg[n] = NoEntry
    /\ r.fs.tmp = r.seen.tmp

\* C3: Rename of n to m, where registry/n exists and registry/m does not,
\* from any caller location: afterwards registry/m has what registry/n had
\* (its content, or its symlink target) and registry/n does not exist.
RenameMovesEntry ==
    \A c \in Callers(FS), name \in OptNames, from \in Names, to \in OptNames :
        \A xdev \in RenameEnvs(c), n \in Names :
            (/\ RenameOf(cleanup(FS), c, name, from, to, n)
             /\ Present(cleanup(FS), n)
             /\ ~Present(cleanup(FS), NewName(from, to))) =>
                Renamed(main(FS, Args(name, "rename", NoneN, SomeN(from), to),
                             c.cwd, c.pwd, Env(1, xdev)),
                        n, NewName(from, to))

\* r is what the end of a session in res does to fs
SessionCleanedUp(r, fs, res) ==
    IF is_symlink(fs, res)
    THEN /\ r.fs.reg = [fs.reg EXCEPT ![NameOf(res)] = NoEntry]
         /\ r.fs.tmp = [fs.tmp EXCEPT ![fs.reg[NameOf(res)].target] = NoDir]
    ELSE r.fs = fs

\* C9: when the sub-shell of a session exits and the session's entry is
\* still a symlink, the symlink is removed and the backing temp directory is
\* deleted with all it holds; when the entry is no longer a symlink, nothing
\* is removed.
SessionExitCleansUp ==
    sess.some => SessionCleanedUp(shell_exit(FS, sess.v), FS, sess.v)

\* a session whose entry is still a symlink to a directory with something in it
SessionExitSeen ==
    /\ sess.some
    /\ is_symlink(FS, sess.v)
    /\ tmp[reg[NameOf(sess.v)].target].items # {}
    /\ ~shell_exit(FS, sess.v).fs.tmp[reg[NameOf(sess.v)].target].ex

\* C2: in every run that keeps invoking the tool, the backing directory of a
\* deleted ephemeral entry eventually no longer exists.
DeletedDirEventuallyGone ==
    \A t \in TmpIds : (t \in deleted) ~> ~tmp[t].ex

\* the integer a child's name carries after unnamed_, read off its digits
\* ("": none)
NameIndex(n) ==
    IF starts_with(n, UNNAMED) /\ Len(strip_prefix(n, UNNAMED)) > 0
       /\ AllDigits(strip_prefix(n, UNNAMED))
    THEN StripZeros(strip_prefix(n, UNNAMED))
    ELSE ""

\* one more than the largest integer i with a child unnamed_<i>, 1 without one
NextIndex(fs) == DecSucc(SetMax({NameIndex(n) : n \in Children(fs)} \ {""}))

\* C11: for every registry, new_name returns unnamed_<k> with k one more than
\* the largest integer i such that unnamed_<i> is a child (1 if there is none),
\* never a gap below it, and the name it returns is not a child.
AllocatorReturnsNext ==
    \A checks \in BOOLEAN :
        /\ new_name_in(FS, checks) = UnnamedName(NextIndex(FS))
        /\ new_name_in(FS, checks) \notin Children(FS)

\* r removed the entry n, and nothing else, and ended with exit code 0
DeletedEntry(r, n) ==
    /\ r.code = 0
    /\ r.fs.reg = [r.seen.reg EXCEPT ![n] = NoEntry]
    /\ r.fs.tmp = r.seen.tmp

\* C12: a single-entry Delete of an existing entry by a caller outside every
\* scratch directory removes registry/name, with all it holds when it is a
\* real directory, and exits with code 0, whether the name is the top-level
\* name argument or the name argument of the delete subcommand.
DeleteByNameSucceeds ==
    \A c \in Callers(FS), n \in Names :
        (Outside(c) /\ Present(cleanup(FS), n)) =>
            /\ DeletedEntry(main(FS, Args(SomeN(n), "delete", NoneN, NoneN, NoneN),
                                  c.cwd, c.pwd, Env(1, FALSE)), n)
            /\ DeletedEntry(main(FS, Args(NoneN, "delete", SomeN(n), NoneN, NoneN),
                                  c.cwd, c.pwd, Env(1, FALSE)), n)

\* every hint of the invocation (the caller's place, the name arguments)
\* that is there points to the entry n, and one is there
OnlyOf(fs, c, name, sub, n) ==
    /\ Inside(fs, c, n) \/ Outside(c)
    /\ name.some => name.v = n
    /\ sub.some => sub.v = n
    /\ Inside(fs, c, n) \/ name.some \/ sub.some

\* r changed nothing and said so
NoOpPersist(r) ==
    /\ r.fs = r.seen
    /\ r.code = 0
    /\ r.msg \in {"was already persistent", "not in a tempdir"}

\* C13: Persist on an entry that is a real directory is a no-op: fn persist
\* returns at once with its message, and the invocation leaves the registry,
\* the directory's contents and the temp root unchanged.
PersistOnPersistentIsNoOp ==
    /\ \A n \in Names :
           cleanup(FS).reg[n].kind = "dir" =>
               persist(cleanup(FS), RegPath(n))
                   = Result(cleanup(FS), TRUE, "was already persistent", 0)
    /\ \A c \in Callers(FS), name \in OptNames, sub \in OptNames, n \in Names :
           (/\ OnlyOf(cleanup(FS), c, name, sub, n)
            /\ cleanup(FS).reg[n].kind = "dir") =>
               NoOpPersist(main(FS, Args(name, "persist", sub, NoneN, NoneN),
                                c.cwd, c.pwd, Env(1, FALSE)))

\* a persist from inside a persistent entry that holds something
PersistOnPersistentSeen ==
    \E n \in Names :
        /\ reg[n].kind = "dir" /\ reg[n].items # {}
        /\ main(FS, Args(NoneN, "persist", NoneN, NoneN, NoneN),
                RegPath(n), SomeP(RegPath(n)), Env(1, FALSE)).msg = "was already persistent"

\* r is a hidden create on the new directory dir
CreatedHidden(r, dir) ==
    /\ r.code = 0
    /\ r.fs.tmp = [r.seen.tmp EXCEPT ![dir] = TmpDir({})]
    /\ r.out = SomeP(TmpPath(dir))
    /\ Parent(r.out.v) = TMP
    /\ starts_with(NameOf(r.out.v), TEMPDIR_PREFIX)
    /\ \A n \in Names : r.fs.reg[n] # LinkTo(dir)
    /\ StatusListing(r.fs, MovedTo(r.fs, r.out.v)) = active_tempdirs(r.seen)

\* C14: a hidden create never changes the registry; on a free name it makes
\* a new directory under the temp root whose name has the prefix, prints that
\* raw path and adds no registry entry, so that Status lists what it listed
\* before.
HiddenCreateLeavesRegistry ==
    \A c \in Callers(FS), name \in OptNames, dir \in FreshDirs(FS) :
        NameOn(cleanup(FS), name) \in Names =>
            /\ main(FS, Args(name, "hidden", NoneN, NoneN, NoneN),
                    c.cwd, c.pwd, Env(dir, FALSE)).fs.reg = cleanup(FS).reg
            /\ ~Present(cleanup(FS), NameOn(cleanup(FS), name)) =>
                   CreatedHidden(main(FS, Args(name, "hidden", NoneN, NoneN, NoneN),
                                      c.cwd, c.pwd, Env(dir, FALSE)), dir)

\* a hidden create on a free name next to a live ephemeral entry
HiddenCreateSeen ==
    \E c \in Callers(FS), dir \in FreshDirs(FS) :
        /\ reg[UnnamedName("1")].kind = "link" /\ tmp[reg[UnnamedName("1")].target].ex
        /\ reg["a"].kind = "none"
        /\ main(FS, Args(SomeN("a"), "hidden", NoneN, NoneN, NoneN),
                c.cwd, c.pwd, Env(dir, FALSE)).out = SomeP(TmpPath(dir))

\* the commands that work on one existing entry
EntryCommands == {"persist", "delete", "rename"}

\* the arguments of an entry command that names n at the top level (top) or
\* in the subcommand, for a rename to the name m
Naming(cmd, top, n, m) ==
    IF cmd = "rename"
    THEN IF top THEN Args(SomeN(n), cmd, NoneN, SomeN(m), NoneN)
                ELSE Args(NoneN, cmd, NoneN, SomeN(n), SomeN(m))
    ELSE IF top THEN Args(SomeN(n), cmd, NoneN, NoneN, NoneN)
                ELSE Args(NoneN, cmd, SomeN(n), NoneN, NoneN)

\* the arguments of an entry command that names no entry
Unnamed(cmd, newName) == Args(NoneN, cmd, NoneN, newName, NoneN)

\* C15: soft conflicts are no failures.  A Create (visible or hidden) on a
\* taken name, a Persist, Delete or Rename of a name that does not exist, a
\* Rename onto an existing name, and a Persist, Delete or Rename with nothing
\* to resolve a name from: each leaves the registry and the temp root as the
\* sweep left them, prints the caller's own location and exits with code 0.
SoftConflictsAreNoOps ==
    /\ \A c \in Callers(FS), n \in Names, dir \in TmpIds, cmd \in {"create", "hidden"} :
           Present(cleanup(FS), n) =>
               NoEffect(main(FS, Args(SomeN(n), cmd, NoneN, NoneN, NoneN),
                             c.cwd, c.pwd, Env(dir, FALSE)), c)
    /\ \A c \in Callers(FS), n \in Names, m \in Names, cmd \in EntryCommands, top \in BOOLEAN :
           (Outside(c) /\ ~Present(cleanup(FS), n)) =>
               NoEffect(main(FS, Naming(cmd, top, n, m), c.cwd, c.pwd, Env(1, FALSE)), c)
    /\ \A c \in Callers(FS), name \in OptNames, from \in Names, to \in OptNames :
           \A xdev \in RenameEnvs(c) :
               Present(cleanup(FS), NewName(from, to)) =>
                   NoEffect(main(FS, Args(name, "rename", NoneN, SomeN(from), to),
                                 c.cwd, c.pwd, Env(1, xdev)), c)
    /\ \A c \in Callers(FS), newName \in OptNames, cmd \in EntryCommands :
           (Outside(c) /\ (newName.some => cmd = "rename")) =>
               NoEffect(main(FS, Unnamed(cmd, newName), c.cwd, c.pwd, Env(1, FALSE)), c)

\* a registry with one name taken and one free, where a create on the taken
\* name and a delete of the free one are both refused
SoftConflictSeen ==
    \E n \in Names, m \in Names :
        /\ Present(cleanup(FS), n)
        /\ ~Present(cleanup(FS), m)
        /\ main(FS, Args(SomeN(n), "create", NoneN, NoneN, NoneN),
                ELSEWHERE, SomeP(ELSEWHERE), Env(1, FALSE)).msg = "already exists"
        /\ main(FS, Args(SomeN(m), "delete", NoneN, NoneN, NoneN),
                ELSEWHERE, SomeP(ELSEWHERE), Env(1, FALSE)).msg = "doesn't exist"

\* r gave the symlink of n, which points to temp dir t, the name m, and left
\* the temp root alone
Relinked(r, n, m, t) ==
    /\ r.fs.reg = [r.seen.reg EXCEPT ![n] = NoEntry, ![m] = LinkTo(t)]
    /\ r.fs.tmp = r.seen.tmp
    /\ r.fs.tmp[t].ex
    /\ active_tempdirs(r.fs)[m] = "ephemeral"

\* C16: a Rename of an ephemeral entry, whether the entry is resolved from a
\* caller inside it by the registry path, from a caller inside it by the raw
\* temp path, or by name, only re-links: the backing temp directory stays
\* where it is with what it holds, and the new registry entry is a symlink
\* to it.
RenameEphemeralRelinks ==
    \A c \in Callers(FS), name \in OptNames, from \in Names, to \in OptNames :
        \A xdev \in RenameEnvs(c), n \in Names :
            (/\ RenameOf(cleanup(FS), c, name, from, to, n)
             /\ cleanup(FS).reg[n].kind = "link"
             /\ ~Present(cleanup(FS), NewName(from, to))) =>
                Relinked(main(FS, Args(name, "rename", NoneN, SomeN(from), to),
                              c.cwd, c.pwd, Env(1, xdev)),
                         n, NewName(from, to), cleanup(FS).reg[n].target)

\* r, the end of the session s, left neither the temp dir made for s nor a
\* registry entry that links to it
SessionEntryGone(r, s) ==
    /\ ~r.fs.tmp[s.dir].ex
    /\ \A n \in Names : r.fs.reg[n] # LinkTo(s.dir)

\* C17: an ephemeral entry made for a session and never persisted is
\* destroyed when the session ends, whatever other invocations (rename,
\* delete, create) ran while the sub-shell was alive: after the end of the
\* session neither a registry entry for it nor its backing temp directory
\* exists.
SessionEndDestroysEntry ==
    (sess.some /\ sess.dir # 0) => SessionEntryGone(shell_exit(FS, sess.v), sess)

\* r changed no registry entry outside S
OnlyIn(r, S) == \A n \in Names \ S : r.fs.reg[n] = r.seen.reg[n]

\* r, a persist or delete aimed at the name n: a missing n is a no-op, a
\* symlink n does not stay as it was
AimedAt(r, c, n) ==
    /\ OnlyIn(r, {n})
    /\ ~Present(r.seen, n) => NoEffect(r, c) /\ r.msg = "doesn't exist"
    /\ r.seen.reg[n].kind = "link" => r.fs.reg[n] # r.seen.reg[n]

\* r, a rename aimed at the name n with the new name m
AimedFromTo(r, c, n, m) ==
    /\ OnlyIn(r, {n, m})
    /\ ~Present(r.seen, n) => NoEffect(r, c) /\ r.msg = "doesn't exist"
    /\ (r.seen.reg[n].kind = "link" /\ ~Present(r.seen, m)) =>
            r.fs.reg[n] = NoEntry /\ r.fs.reg[m] = r.seen.reg[n]

\* r is the no-op of an entry command that has nothing to take a target from
NoTarget(r, c) == NoEffect(r, c) /\ r.msg = "not in a tempdir"

\* r, the persist or delete cmd of the caller c with the names top and sub,
\* i what in_tempdir says of c
ChosenInOrder(r, c, cmd, top, sub, i) ==
    IF i.some
    THEN r = main(FS, Args(NoneN, cmd, NoneN, NoneN, NoneN), c.cwd, c.pwd, Env(1, FALSE))
    ELSE IF top.some
    THEN /\ r = main(FS, Args(top, cmd, NoneN, NoneN, NoneN), c.cwd, c.pwd, Env(1, FALSE))
         /\ AimedAt(r, c, top.v)
    ELSE IF sub.some THEN AimedAt(r, c, sub.v)
    ELSE NoTarget(r, c)

\* r, the rename of the caller c with the top-level name top and the
\* arguments from and to
RenameChosenInOrder(r, c, top, from, to, i, xdev) ==
    IF i.some
    THEN r = main(FS, Args(NoneN, "rename", NoneN, SomeN(NewName(from, to)), NoneN),
                  c.cwd, c.pwd, Env(1, xdev))
    ELSE IF top.some
    THEN /\ r = main(FS, Args(top, "rename", NoneN, SomeN(NewName(from, to)), NoneN),
                     c.cwd, c.pwd, Env(1, xdev))
         /\ AimedFromTo(r, c, top.v, NewName(from, to))
    ELSE IF to.some THEN AimedFromTo(r, c, from, to.v)
    ELSE NoTarget(r, c)

\* C18: Persist, Delete and Rename pick their target in one order.  When
\* in_tempdir places the caller in an entry, that entry is the target and the
\* name arguments are not looked at; else the top-level name is the target
\* and the subcommand's name is not looked at; else the subcommand's name
\* (for a rename: `from`, when `to` is given) is the target; else the command
\* is a no-op that prints the caller's own location.  No entry but the target
\* (and, for a rename, the new name) changes.
TargetChosenInOrder ==
    \A c \in Callers(FS) :
        /\ \A cmd \in {"persist", "delete"}, top \in OptNames, sub \in OptNames :
                ChosenInOrder(main(FS, Args(top, cmd, sub, NoneN, NoneN),
                                   c.cwd, c.pwd, Env(1, FALSE)),
                              c, cmd, top, sub,
                              in_tempdir(cleanup(FS), TEMPDIRS, c.cwd, c.pwd))
        /\ \A top \in OptNames, from \in Names, to \in OptNames, xdev \in RenameEnvs(c) :
                RenameChosenInOrder(main(FS, Args(top, "rename", NoneN, SomeN(from), to),
                                         c.cwd, c.pwd, Env(1, xdev)),
                                    c, top, from, to,
                                    in_tempdir(cleanup(FS), TEMPDIRS, c.cwd, c.pwd), xdev)

\* r deleted the entry n and left the entry m
DeletedNotNamed(r, n, m) ==
    /\ Present(r.seen, n) /\ Present(r.seen, m)
    /\ r.fs.reg[n] = NoEntry
    /\ r.fs.reg[m] = r.seen.reg[m]

\* a caller inside the entry n names another entry m, twice, in a delete: n
\* is deleted and m stays
InsideBeatsNameSeen ==
    \E c \in Callers(FS), n \in Names, m \in Names :
        /\ n # m
        /\ in_tempdir(cleanup(FS), TEMPDIRS, c.cwd, c.pwd) = SomeP(RegPath(n))
        /\ DeletedNotNamed(main(FS, Args(SomeN(m), "delete", SomeN(m), NoneN, NoneN),
                                c.cwd, c.pwd, Env(1, FALSE)), n, m)

\* r, an invocation that could not list the registry: it fails and has
\* touched nothing
ListFaultIsFatal(r) ==
    /\ r.code = 1
    /\ ~r.out.some
    /\ r.fs = FS

\* r, an invocation that could not read the directory entry of bad: it goes
\* on, sweeps the other stale symlinks and runs its command
EntryFaultTolerated(r, bad) ==
    /\ r.code = 0
    /\ r.out.some
    /\ \A n \in Names \ {bad} : ~Stale(r.fs, n)

\* C19: the fault policy of the startup sweep.  A failure to read one
\* directory entry does not fail the invocation: the other entries are
\* still swept and the command runs.  A failure to list the registry is
\* fatal: the invocation ends with an error before a command is dispatched.
SweepFaultPolicy ==
    \A c \in Callers(FS), fault \in SweepFaults(FS) :
        IF fault.at = "list"
        THEN ListFaultIsFatal(main_failing(FS, fault, c.cwd, c.pwd))
        ELSE EntryFaultTolerated(main_failing(FS, fault, c.cwd, c.pwd), fault.bad)

\* C20: the registry invariant.  After any sequence of invocations of the
\* tool (create, hidden, persist, rename, delete, delete-all, status,
\* session) from an empty registry, with nothing else changing the
\* filesystem, every child of the registry is a real directory or a symlink
\* whose target is an existing directory under the temp root.
RegistryChildrenAreSound ==
    \A n \in Names : reg[n].kind = "link" => tmp[reg[n].target].ex

\* r, a `t shell` up to the spawn of its sub-shell: the rest of fn shell,
\* run when the sub-shell exits at once, removes nothing
EndsUntouched(r) == shell_exit(r.fs, r.go.v).fs = r.fs

\* C21: a session removes only the entry it created itself.  When the
\* create_tempdir of `t shell` finds the name taken, the end of the session
\* removes no registry entry and no backing directory, wherever the caller
\* was, the registry path of an ephemeral entry included.
ConflictedSessionRemovesNothing ==
    ~sess.some =>
        \A c \in Callers(FS), name \in Names :
            Present(cleanup(FS), name) =>
                EndsUntouched(main(FS, Args(SomeN(name), "shell", NoneN, NoneN, NoneN),
                                   c.cwd, c.pwd, Env(1, FALSE)))

====
